---- MODULE Spec2Model ----
(***************************************************************************)
(* Model of app.py: a Flask application with one route,                    *)
(* GET /api/news/<category>, which fetches an RSS feed, builds up to 15    *)
(* articles from its item elements and asks chat() for the tags of each.   *)
(*                                                                         *)
(* Python values are modelled as follows.  A str is a TLA+ string; None is *)
(* the distinguished value None, different from every str the model uses.  *)
(* The text of the generative service and the tags made from it are        *)
(* sequences of one-character strings, so that split and strip are         *)
(* computed character by character.                                        *)
(***************************************************************************)
EXTENDS Integers, Sequences, FiniteSets, TLC

(***************************************************************************)
(* Bounds of the model.                                                    *)
(***************************************************************************)
\* Largest number of item elements in a feed (more than the cap of 15).
MaxItems == 17
\* Largest length of a raw text of the generative service in SpecTags.
MaxLen == 4

(***************************************************************************)
(* Python values.                                                          *)
(***************************************************************************)
\* Python's None.
None == "<None>"
\* item.find(name) found no child element of that name.
Absent == "<absent>"
\* Python truthiness of a value that is None or a str: `not v`.
Falsy(v) == v = None \/ v = ""

(***************************************************************************)
(* Program constants.                                                      *)
(***************************************************************************)
\* len(news_list) >= 15 ends the loop.
Cap == 15

\* The keys are the Japanese category names of app.py lines 76-79, written
\* here in Latin letters: Tekunoroji, Keizai, Supotsu, Kokusai.
RSS_FEEDS ==
  [c \in {"Tekunoroji", "Keizai", "Supotsu", "Kokusai"} |->
     CASE c = "Tekunoroji" -> "https://news.google.com/rss/headlines/section/topic/TECHNOLOGY?hl=ja&gl=JP&ceid=JP:ja"
       [] c = "Keizai" -> "https://news.google.com/rss/headlines/section/topic/BUSINESS?hl=ja&gl=JP&ceid=JP:ja"
       [] c = "Supotsu" -> "https://news.google.com/rss/headlines/section/topic/SPORTS?hl=ja&gl=JP&ceid=JP:ja"
       [] c = "Kokusai" -> "https://news.google.com/rss/headlines/section/topic/WORLD?hl=ja&gl=JP&ceid=JP:ja"]

\* Variant of DictGet: the lookup ignores letter case and outer blanks.
DictGetNormalized(d, key) ==
  IF key \in DOMAIN d THEN d[key]
  ELSE IF key \in {"Tekunoroji ", "tekunoroji"} THEN d["Tekunoroji"]
  ELSE None
\* dict.get(key): the value, or None when key is not a key.
DictGet(d, key) == IF key \in DOMAIN d THEN d[key] ELSE None

(***************************************************************************)
(* Inputs.                                                                 *)
(***************************************************************************)
\* Values of os.getenv('GEMINI_API_KEY'): unset, set to nothing, set.
Credentials == {None, "", "key"}
\* How the module is run: as the main program, or imported by a WSGI host
\* (the `if __name__ == '__main__'` guard is then false).
Launches == {"main", "imported"}
\* Path segments of requests: the four keys and strings that are no key.
Categories == (DOMAIN RSS_FEEDS) \cup {"foo", "Tekunoroji ", "tekunoroji", ""}

\* The k-th item element (k = 1, 2, ...) of the feed with the given seed.
\* Each of title, link, description is a child with text, no such child, or
\* a child without text (element.text is None); the seed shifts the shapes
\* so that every combination occurs.
ChildText(kind, name, k) ==
  CASE kind = 0 -> name \o ToString(k)
    [] kind = 1 -> Absent
    [] kind = 2 -> None
FeedItem(k, seed) ==
  LET s == (k + seed) % 27 IN
  [title       |-> ChildText(s % 3, "title", k),
   link        |-> ChildText((s \div 3) % 3, "link", k),
   description |-> ChildText((s \div 9) % 3, "description", k)]
FeedSeeds == {0, 9, 18}
\* root.findall('.//item') of a well-formed document: its item elements in
\* document order.
MakeFeed(n, seed) == [k \in 1..n |-> FeedItem(k, seed)]
Feeds == {MakeFeed(n, seed) : n \in 0..MaxItems, seed \in FeedSeeds}

\* What requests.get(feed_url, timeout=15) does: it raises, or it returns a
\* response with a final status and a body.
FetchOutcomes ==
  [kind : {"timeout", "connection"}, status : {0}] \cup
  [kind : {"response"}, status : {200, 304, 404, 503}]

\* What the generative service does in one call of chat, once the
\* credential is there: building the client raises, building the
\* configuration raises, generate_content raises, the response has no text
\* (response.text is None), or the response has a text.
ServiceTexts ==
  << <<"a", ",", " ", "b", " ", ",", "c", ",">>,
     <<>>,
     <<" ", "a", ",", "a">> >>
ServiceOk ==
  << [kind |-> "text", text |-> ServiceTexts[1]],
     [kind |-> "call_raises", text |-> <<>>],
     [kind |-> "text", text |-> ServiceTexts[2]],
     [kind |-> "no_text", text |-> <<>>],
     [kind |-> "text", text |-> ServiceTexts[3]] >>
\* A script fixes the outcome of the call for every article index of one
\* request: the outcomes of ServiceOk in turn from an offset, and at most
\* one index at which building the client or the configuration raises.
Scripts ==
  [offset : {0, 1}, failAt : {-1}, fail : {"client_raises"}] \cup
  [offset : {0}, failAt : {0, 2, 14}, fail : {"client_raises", "config_raises"}]
ServiceOutcome(script, i) ==
  IF i = script.failAt
    THEN [kind |-> script.fail, text |-> <<>>]
    ELSE ServiceOk[((i + script.offset) % Len(ServiceOk)) + 1]

(***************************************************************************)
(* chat: the parsing of the response text (app.py line 48).                *)
(***************************************************************************)
\* Characters str.strip() removes.
Whitespace == {" ", "\n", "\t"}

\* str.split(','): the pieces between the commas, empty pieces included.
RECURSIVE SplitFrom(_, _, _)
SplitFrom(text, i, piece) ==
  IF i > Len(text) THEN <<piece>>
  ELSE IF text[i] = "," THEN <<piece>> \o SplitFrom(text, i + 1, <<>>)
  ELSE SplitFrom(text, i + 1, Append(piece, text[i]))
Split(text) == SplitFrom(text, 1, <<>>)

\* str.lstrip(), str.rstrip(), str.strip().
RECURSIVE LStrip(_)
LStrip(s) ==
  IF s # <<>> /\ Head(s) \in Whitespace THEN LStrip(Tail(s)) ELSE s
RECURSIVE RStrip(_)
RStrip(s) ==
  IF s # <<>> /\ s[Len(s)] \in Whitespace
    THEN RStrip(SubSeq(s, 1, Len(s) - 1)) ELSE s
Strip(s) == RStrip(LStrip(s))

\* Variant of ParseTags: the filter tests the stripped piece, the list
\* keeps the piece as it was ([t for t in text.split(',') if t.strip()]).
RECURSIVE KeepNonEmpty(_)
KeepNonEmpty(pieces) ==
  IF pieces = <<>> THEN <<>>
  ELSE (IF Strip(Head(pieces)) # <<>> THEN <<Head(pieces)>> ELSE <<>>)
       \o KeepNonEmpty(Tail(pieces))
ParseTagsUnstripped(text) == KeepNonEmpty(Split(text))

\* [t.strip() for t in text.split(',') if t.strip()]
RECURSIVE StripNonEmpty(_)
StripNonEmpty(pieces) ==
  IF pieces = <<>> THEN <<>>
  ELSE LET t == Strip(Head(pieces)) IN
       (IF t # <<>> THEN <<t>> ELSE <<>>) \o StripNonEmpty(Tail(pieces))
ParseTags(text) == StripNonEmpty(Split(text))

(***************************************************************************)
(* get_news: the fields of one article (app.py lines 113-117).             *)
(***************************************************************************)
ItemTitle(item) == IF item.title # Absent THEN item.title ELSE "No Title"
ItemLink(item) == IF item.link # Absent THEN item.link ELSE "#"
\* Variant of ItemDescription: a missing description becomes "".
ItemDescriptionEmpty(item) ==
  IF item.description # Absent THEN item.description ELSE ""
ItemDescription(item) ==
  IF item.description # Absent THEN item.description ELSE ItemTitle(item)

\* The dict appended to news_list (app.py lines 137-143).
Article(i, item, tags) ==
  [id          |-> i,
   title       |-> ItemTitle(item),
   link        |-> ItemLink(item),
   description |-> ItemDescription(item),
   tags        |-> tags]

\* Variant of RaisesForStatus: the status is never looked at.
RaisesForStatusNever(status) == FALSE
\* response.raise_for_status(): raises for a 4xx or 5xx status.
RaisesForStatus(status) == 400 <= status /\ status < 600

(***************************************************************************)
(* State.                                                                  *)
(***************************************************************************)
VARIABLES
  GEMINI_API_KEY, \* module global read from the environment at import
  launch,         \* how the module is run
  proc,           \* "loading", "serving" or "exited"
  pc,             \* position of the request in get_news
  category,       \* argument of get_news
  feed_url,       \* local of get_news
  response,       \* what requests.get did: [kind, status]
  content,        \* response.content: [wellformed, items]
  items,          \* root.findall('.//item')
  i,              \* index of enumerate
  news_list,      \* local of get_news
  script,         \* behaviour of the generative service in this request
  text,           \* chat: response.text of the last call that had one
  tags,           \* chat: the list it last returned
  log,            \* the external calls made by the request, in order
  resp            \* the HTTP response of the request

vars == <<GEMINI_API_KEY, launch, proc, pc, category, feed_url, response,
          content, items, i, news_list, script, text, tags, log, resp>>

NoResp == [status |-> 0, error |-> "", json |-> <<>>]
NoContent == [wellformed |-> FALSE, items |-> <<>>]
NoResponse == [kind |-> "none", status |-> 0]
NoScript == [offset |-> 0, failAt |-> -1, fail |-> "client_raises"]
Ev(name, idx) == [ev |-> name, idx |-> idx]

Init ==
  /\ GEMINI_API_KEY \in Credentials
  /\ launch \in Launches
  /\ proc = "loading"
  /\ pc = "idle"
  /\ category = None
  /\ feed_url = None
  /\ response = NoResponse
  /\ content = NoContent
  /\ items = <<>>
  /\ i = 0
  /\ news_list = <<>>
  /\ script = NoScript
  /\ text = <<>>
  /\ tags = <<>>
  /\ log = <<>>
  /\ resp = NoResp

reqVars == <<pc, category, feed_url, response, content, items, i, news_list,
            script, text, tags, log, resp>>

(***************************************************************************)
(* Start of the process (app.py lines 159-165).                            *)
(***************************************************************************)
\* Variant of MainNoKey: the error is printed and the server runs anyway.
MainNoKeyRuns ==
  /\ proc = "loading" /\ launch = "main"
  /\ Falsy(GEMINI_API_KEY)
  /\ proc' = "serving"
  /\ UNCHANGED <<GEMINI_API_KEY, launch>> /\ UNCHANGED reqVars
\* Run as the main program: the server starts only with the credential.
MainNoKey ==
  /\ proc = "loading" /\ launch = "main"
  /\ Falsy(GEMINI_API_KEY)
  /\ proc' = "exited"
  /\ UNCHANGED <<GEMINI_API_KEY, launch>> /\ UNCHANGED reqVars
MainRun ==
  /\ proc = "loading" /\ launch = "main"
  /\ ~Falsy(GEMINI_API_KEY)
  /\ proc' = "serving"
  /\ UNCHANGED <<GEMINI_API_KEY, launch>> /\ UNCHANGED reqVars
\* Imported by a host that serves `app`: lines 159-165 do not run.
Imported ==
  /\ proc = "loading" /\ launch = "imported"
  /\ proc' = "serving"
  /\ UNCHANGED <<GEMINI_API_KEY, launch>> /\ UNCHANGED reqVars

procVars == <<GEMINI_API_KEY, launch, proc>>

(***************************************************************************)
(* get_news (app.py lines 88-157).                                         *)
(***************************************************************************)
\* The route is entered with a category; lines 92-94.
ResolveCategory ==
  /\ proc = "serving" /\ pc = "idle"
  /\ \E c \in Categories :
       /\ category' = c
       /\ feed_url' = DictGet(RSS_FEEDS, c)
       /\ IF Falsy(DictGet(RSS_FEEDS, c))
            THEN /\ resp' = [status |-> 400, error |-> "Invalid category", json |-> <<>>]
                 /\ pc' = "done"
            ELSE /\ resp' = resp
                 /\ pc' = "fetch"
  /\ UNCHANGED <<response, content, items, i, news_list, script, text, tags, log>>
  /\ UNCHANGED procVars

\* requests.get and raise_for_status; lines 100-101, 152-154.
FetchFeed ==
  /\ pc = "fetch"
  /\ \E o \in FetchOutcomes, f \in Feeds, wf \in BOOLEAN :
       /\ log' = Append(log, Ev("fetch", -1))
       /\ response' = o
       /\ IF o.kind # "response" \/ RaisesForStatus(o.status)
            THEN /\ resp' = [status |-> 500, error |-> "Failed to fetch RSS feed: ", json |-> <<>>]
                 /\ pc' = "done"
                 /\ content' = content
            ELSE /\ resp' = resp
                 /\ pc' = "parse"
                 /\ content' = [wellformed |-> wf, items |-> IF wf THEN f ELSE <<>>]
  /\ UNCHANGED <<category, feed_url, items, i, news_list, script, text, tags>>
  /\ UNCHANGED procVars

\* ET.fromstring and findall; lines 102-108, 155-157.
ParseFeed ==
  /\ pc = "parse"
  /\ log' = Append(log, Ev("parse", -1))
  /\ IF content.wellformed
       THEN /\ items' = content.items
            /\ i' = 0
            /\ news_list' = <<>>
            /\ pc' = "loop"
            /\ resp' = resp
            /\ script' \in Scripts
       ELSE /\ resp' = [status |-> 500, error |-> "Failed to parse RSS feed: ", json |-> <<>>]
            /\ pc' = "done"
            /\ UNCHANGED <<items, i, news_list, script>>
  /\ UNCHANGED <<category, feed_url, response, content, text, tags>>
  /\ UNCHANGED procVars

\* The loop is over, by exhaustion or by the break of line 111; line 150.
Respond ==
  /\ pc = "loop"
  /\ i >= Len(items) \/ Len(news_list) >= Cap
  /\ resp' = [status |-> 200, error |-> "", json |-> news_list]
  /\ pc' = "done"
  /\ UNCHANGED <<category, feed_url, response, content, items, i, news_list,
                 script, text, tags, log>>
  /\ UNCHANGED procVars

\* Variant of NextItem: the loop has no cap.
NextItemNoCap ==
  /\ pc = "loop"
  /\ i < Len(items)
  /\ pc' = "chat"
  /\ UNCHANGED <<category, feed_url, response, content, items, i, news_list,
                 script, text, tags, log, resp>>
  /\ UNCHANGED procVars

\* One more item: lines 113-133, up to the call of chat.
NextItem ==
  /\ pc = "loop"
  /\ i < Len(items) /\ Len(news_list) < Cap
  /\ pc' = "chat"
  /\ UNCHANGED <<category, feed_url, response, content, items, i, news_list,
                 script, text, tags, log, resp>>
  /\ UNCHANGED procVars

\* chat returned t: lines 137-144, and the next turn of enumerate.
Returned(t, events) ==
  /\ tags' = t
  /\ news_list' = Append(news_list, Article(i, items[i + 1], t))
  /\ i' = i + 1
  /\ log' = log \o events
  /\ pc' = "loop"
  /\ resp' = resp
  /\ UNCHANGED <<category, feed_url, response, content, items, script>>
  /\ UNCHANGED procVars

\* chat raised: no except clause of get_news matches, the framework
\* answers 500.
Raised(events) ==
  /\ log' = log \o events
  /\ resp' = [status |-> 500, error |-> "Internal Server Error", json |-> <<>>]
  /\ pc' = "done"
  /\ UNCHANGED <<category, feed_url, response, content, items, i, news_list,
                 script, text, tags>>
  /\ UNCHANGED procVars

\* Variant of ChatNoKey: the credential is tested after the client is built.
ChatNoKeyLate ==
  /\ pc = "chat"
  /\ Falsy(GEMINI_API_KEY)
  /\ text' = text
  /\ Returned(<<>>, <<Ev("chat", i), Ev("client", i), Ev("chat_end", i)>>)

\* chat, lines 24-26: no credential.
ChatNoKey ==
  /\ pc = "chat"
  /\ Falsy(GEMINI_API_KEY)
  /\ text' = text
  /\ Returned(<<>>, <<Ev("chat", i), Ev("chat_end", i)>>)

\* chat, line 28: genai.Client raises.
ChatClientRaises ==
  /\ pc = "chat"
  /\ ~Falsy(GEMINI_API_KEY)
  /\ ServiceOutcome(script, i).kind = "client_raises"
  /\ Raised(<<Ev("chat", i), Ev("client", i)>>)

\* chat, lines 32-37: types.GenerateContentConfig raises.
ChatConfigRaises ==
  /\ pc = "chat"
  /\ ~Falsy(GEMINI_API_KEY)
  /\ ServiceOutcome(script, i).kind = "config_raises"
  /\ Raised(<<Ev("chat", i), Ev("client", i), Ev("config", i)>>)

\* chat, lines 39-53: generate_content raises, or response.text is None
\* and .split raises; the except clause returns [].
ChatCallFails ==
  /\ pc = "chat"
  /\ ~Falsy(GEMINI_API_KEY)
  /\ ServiceOutcome(script, i).kind \in {"call_raises", "no_text"}
  /\ text' = text
  /\ Returned(<<>>, <<Ev("chat", i), Ev("client", i), Ev("config", i),
                      Ev("generate", i), Ev("chat_end", i)>>)

\* chat, lines 39-49: the response has a text.
ChatTags ==
  /\ pc = "chat"
  /\ ~Falsy(GEMINI_API_KEY)
  /\ ServiceOutcome(script, i).kind = "text"
  /\ text' = ServiceOutcome(script, i).text
  /\ Returned(ParseTags(ServiceOutcome(script, i).text),
              <<Ev("chat", i), Ev("client", i), Ev("config", i),
                Ev("generate", i), Ev("chat_end", i)>>)

Next ==
  \/ MainNoKey
  \/ MainRun
  \/ Imported
  \/ ResolveCategory
  \/ FetchFeed
  \/ ParseFeed
  \/ NextItem
  \/ ChatNoKey
  \/ ChatClientRaises
  \/ ChatConfigRaises
  \/ ChatCallFails
  \/ ChatTags
  \/ Respond

Spec == Init /\ [][Next]_vars

(***************************************************************************)
(* The parsing of chat alone, on every text up to MaxLen characters.       *)
(***************************************************************************)
Alphabet == {"a", "b", " ", ","}
\* The text of the comment of line 47 with the blanks and the trailing
\* comma of a less tidy answer; the tags are written in Latin letters.
ExampleText ==
  <<"t", "e", "c", "h", ",", " ", "A", "I", " ", ",", "n", "e", "w", ",">>
Texts ==
  UNION {[1..n -> Alphabet] : n \in 0..MaxLen} \cup {ExampleText}

InitTags ==
  /\ GEMINI_API_KEY = "key"
  /\ launch = "imported"
  /\ proc = "serving"
  /\ pc = "generate"
  /\ category = None
  /\ feed_url = None
  /\ response = NoResponse
  /\ content = NoContent
  /\ items = <<>>
  /\ i = 0
  /\ news_list = <<>>
  /\ script = NoScript
  /\ text \in Texts
  /\ tags = <<>>
  /\ log = <<>>
  /\ resp = NoResp

\* chat, lines 48-49, on the text the service returned.
ChatParse ==
  /\ pc = "generate"
  /\ tags' = ParseTags(text)
  /\ pc' = "returned"
  /\ UNCHANGED <<category, feed_url, response, content, items, i, news_list,
                 script, text, log, resp>>
  /\ UNCHANGED procVars

NextTags == ChatParse

SpecTags == InitTags /\ [][NextTags]_vars

(***************************************************************************)
(* Properties.                                                             *)
(***************************************************************************)
Min(a, b) == IF a < b THEN a ELSE b
KnownCategory == category \in DOMAIN RSS_FEEDS
\* The request is over and its feed was fetched and parsed.
FeedParsed == pc = "done" /\ KnownCategory /\ content.wellformed
ServiceEvents == {"client", "config", "generate"}
ChatEvents == ServiceEvents \cup {"chat", "chat_end"}
HasEvent(names) == \E n \in 1..Len(log) : log[n].ev \in names

\* C1: once the feed of a known category was fetched and parsed, the
\* response is 200 with exactly min(N, 15) articles, the k-th of them built
\* from the k-th item of the feed and with id = k.
C1_FeedGivesArticles ==
  FeedParsed =>
    /\ resp.status = 200
    /\ Len(resp.json) = Min(Len(content.items), Cap)
    /\ \A k \in 0..(Len(resp.json) - 1) :
         /\ resp.json[k + 1].id = k
         /\ resp.json[k + 1] =
              Article(k, content.items[k + 1], resp.json[k + 1].tags)

\* C2: chat never raises, whatever fails inside it: every call of chat that
\* started has returned, a call in which something failed gave the article
\* tags = [], and the request whose feed was parsed ends with status 200.
C2_ChatNeverRaises ==
  /\ \A n \in 1..Len(log) :
       log[n].ev = "chat" =>
         \E m \in (n + 1)..Len(log) : log[m] = Ev("chat_end", log[n].idx)
  /\ \A k \in 1..Len(news_list) :
       (Falsy(GEMINI_API_KEY) \/ ServiceOutcome(script, k - 1).kind # "text")
         => news_list[k].tags = <<>>
  /\ (pc = "done" /\ HasEvent({"chat"})) => resp.status = 200

\* C3: a category that is no key of RSS_FEEDS ends the request at once with
\* 400 and the error "Invalid category"; nothing was fetched and chat was
\* not called.
C3_InvalidCategory ==
  (category # None /\ ~KnownCategory) =>
    /\ pc = "done"
    /\ resp = [status |-> 400, error |-> "Invalid category", json |-> <<>>]
    /\ log = <<>>
    /\ news_list = <<>>
C3_Witness ==
  /\ category = "Tekunoroji "
  /\ pc = "done"
  /\ resp.status = 400

\* requests.get raised, or the final status is not a 2xx status.
FetchFailedAsClaimed ==
  \/ response.kind \in {"timeout", "connection"}
  \/ response.kind = "response" /\ ~(200 <= response.status /\ response.status < 300)
\* requests.get raised, or the final status is a 4xx or 5xx status.
FetchFailed ==
  \/ response.kind \in {"timeout", "connection"}
  \/ response.kind = "response" /\ 400 <= response.status /\ response.status < 600
FetchErrorResp ==
  [status |-> 500, error |-> "Failed to fetch RSS feed: ", json |-> <<>>]
ParseErrorResp ==
  [status |-> 500, error |-> "Failed to parse RSS feed: ", json |-> <<>>]

\* C4 as stated: a timeout, a connection failure or a non-2xx status gives
\* 500 "Failed to fetch RSS feed:", malformed XML gives 500 "Failed to parse
\* RSS feed:", and in both cases chat was not called and there is no list.
C4_AsStated ==
  /\ (pc = "done" /\ FetchFailedAsClaimed) =>
       resp = FetchErrorResp /\ ~HasEvent(ChatEvents) /\ news_list = <<>>
  /\ (pc = "done" /\ response.kind = "response" /\ ~FetchFailedAsClaimed
        /\ ~content.wellformed) =>
       resp = ParseErrorResp /\ ~HasEvent(ChatEvents) /\ news_list = <<>>

\* C4 amended: a timeout, a connection failure or a 4xx or 5xx status gives
\* 500 "Failed to fetch RSS feed:"; any other response whose body is
\* malformed XML gives 500 "Failed to parse RSS feed:"; in both cases the
\* request is over, chat was not called and there is no article list.
C4_FetchAndParseErrors ==
  /\ FetchFailed =>
       /\ pc = "done"
       /\ resp = FetchErrorResp
       /\ log = <<Ev("fetch", -1)>>
       /\ news_list = <<>>
  /\ (response.kind = "response" /\ ~FetchFailed /\ ~content.wellformed
        /\ pc # "parse") =>
       /\ pc = "done"
       /\ resp = ParseErrorResp
       /\ log = <<Ev("fetch", -1), Ev("parse", -1)>>
       /\ news_list = <<>>
C4_Witness ==
  /\ pc = "done"
  /\ response = [kind |-> "response", status |-> 503]
  /\ resp = FetchErrorResp

\* C5: without the credential no client is built and no call to the
\* service is made, and every article of a 200 response has tags = [].
C5_NoKeyNoCall ==
  GEMINI_API_KEY = None =>
    /\ ~HasEvent(ServiceEvents)
    /\ resp.status = 200 =>
         \A k \in 1..Len(resp.json) : resp.json[k].tags = <<>>
C5_Witness ==
  /\ GEMINI_API_KEY = None
  /\ resp.status = 200
  /\ Len(resp.json) >= 2
  /\ HasEvent({"chat_end"})

\* C6 as stated: run as the main program without the credential, the
\* server starts all the same.
C6_AsStated ==
  (launch = "main" /\ GEMINI_API_KEY = None /\ proc # "loading") =>
    proc = "serving"

\* C6 amended: run as the main program without the credential, the program
\* prints an error and does not start the server, so no request is served;
\* the main program serves only with the credential.
C6_MainNeedsKey ==
  /\ (launch = "main" /\ Falsy(GEMINI_API_KEY) /\ proc # "loading") =>
       proc = "exited" /\ pc = "idle" /\ resp = NoResp
  /\ (launch = "main" /\ proc = "serving") => ~Falsy(GEMINI_API_KEY)
C6_Witness ==
  /\ launch = "main"
  /\ GEMINI_API_KEY = None
  /\ proc = "exited"

\* C7: in every article, a missing title gives "No Title", a missing link
\* gives "#", a missing description gives the article's title ("No Title"
\* when the title is missing too), and a child that is there gives its text.
C7_Fallbacks ==
  \A k \in 1..Len(news_list) :
    LET item == items[k]
        a == news_list[k]
    IN  /\ item.title = Absent => a.title = "No Title"
        /\ item.link = Absent => a.link = "#"
        /\ item.description = Absent => a.description = a.title
        /\ (item.title = Absent /\ item.description = Absent)
             => a.description = "No Title"
        /\ item.title # Absent => a.title = item.title
        /\ item.link # Absent => a.link = item.link
        /\ item.description # Absent => a.description = item.description
C7_Witness ==
  \E k \in 1..Len(news_list) :
    /\ items[k].title = Absent
    /\ items[k].link = Absent
    /\ items[k].description = Absent
    /\ news_list[k].description = "No Title"

\* C8: in every 200 response, title, link and description of every article
\* are strings, never null, and tags is a list of strings.
C8_FieldsAreStrings ==
  resp.status = 200 =>
    \A k \in 1..Len(resp.json) :
      /\ resp.json[k].title # None
      /\ resp.json[k].link # None
      /\ resp.json[k].description # None
      /\ \A t \in 1..Len(resp.json[k].tags) : Len(resp.json[k].tags[t]) > 0

\* The pieces of a text between its commas, by the positions of the commas.
CommaAt(t) == {p \in 1..Len(t) : t[p] = ","}
Bound(t, j) ==
  IF j = 0 THEN 0
  ELSE IF j > Cardinality(CommaAt(t)) THEN Len(t) + 1
  ELSE CHOOSE p \in CommaAt(t) : Cardinality({q \in CommaAt(t) : q < p}) = j - 1
Piece(t, j) == SubSeq(t, Bound(t, j - 1) + 1, Bound(t, j) - 1)
\* A piece without its outer whitespace, by the positions of the rest.
Ink(s) == {p \in 1..Len(s) : s[p] \notin Whitespace}
Trimmed(s) ==
  IF Ink(s) = {} THEN <<>>
  ELSE SubSeq(s, CHOOSE p \in Ink(s) : \A q \in Ink(s) : p <= q,
                 CHOOSE p \in Ink(s) : \A q \in Ink(s) : p >= q)
NonEmpty(s) == s # <<>>
ExpectedTags(t) ==
  SelectSeq([j \in 1..(Cardinality(CommaAt(t)) + 1) |-> Trimmed(Piece(t, j))],
            NonEmpty)

\* C9: the tags chat returns are the pieces of the text between its commas,
\* each trimmed, the empty ones dropped, in order and with duplicates; so
\* every tag is non-empty and neither starts nor ends with whitespace.
C9_TagsAreTrimmedPieces ==
  pc = "returned" =>
    /\ tags = ExpectedTags(text)
    /\ \A k \in 1..Len(tags) :
         /\ tags[k] # <<>>
         /\ tags[k][1] \notin Whitespace
         /\ tags[k][Len(tags[k])] \notin Whitespace
         /\ \A p \in 1..Len(tags[k]) : tags[k][p] # ","
C9_Witness ==
  /\ pc = "returned"
  /\ text = ExampleText
  /\ tags = << <<"t", "e", "c", "h">>, <<"A", "I">>, <<"n", "e", "w">> >>

\* C10: in a request answered 200 there is one fetch, then one parse, then
\* one call of chat per returned article, in feed order, each over before
\* the next starts, and none for an item beyond the 15th.
IsChatStart(e) == e.ev = "chat"
C10_Sequential ==
  resp.status = 200 =>
    /\ Len(log) >= 2
    /\ log[1] = Ev("fetch", -1)
    /\ log[2] = Ev("parse", -1)
    /\ \A n \in 3..Len(log) : log[n].ev \in ChatEvents
    /\ LET starts == SelectSeq(log, IsChatStart) IN
         /\ Len(starts) = Len(resp.json)
         /\ Len(starts) <= Cap
         /\ \A k \in 1..Len(starts) :
              starts[k].idx = k - 1 /\ resp.json[k].id = k - 1
    /\ \A n \in 3..Len(log) :
         /\ log[n].idx < Cap
         /\ log[n].ev = "chat" =>
              \E m \in (n + 1)..Len(log) :
                /\ log[m] = Ev("chat_end", log[n].idx)
                /\ \A q \in n..m : log[q].idx = log[n].idx
                /\ \A q \in (n + 1)..(m - 1) : log[q].ev \in ServiceEvents
C10_Witness ==
  /\ resp.status = 200
  /\ Len(items) = MaxItems
  /\ Len(resp.json) = Cap
  /\ HasEvent({"generate"})
====
